---------------------------- MODULE Spec2Model ----------------------------
(***************************************************************************)
(* A model of the Valgrind client-request bridge of iai-callgrind:         *)
(*                                                                         *)
(*   src/iai-callgrind/valgrind/native.c                                   *)
(*       valgrind_do_client_request_expr, valgrind_printf,                 *)
(*       valgrind_printf_backtrace                                         *)
(*   src/client-request-tests/valgrind/wrapper.c                           *)
(*       print_error, running_on_valgrind                                  *)
(*                                                                         *)
(* The bridge is a host process that calls the shims.  The Valgrind side   *)
(* (the header macros and the tool behind the magic sequence) is not part  *)
(* of the repository: it is modelled as the environment, after the         *)
(* repository's specification.                                             *)
(***************************************************************************)
EXTENDS Integers, Sequences, FiniteSets, Bags, TLC

(***************************************************************************)
(* Bounds of the model.                                                    *)
(***************************************************************************)
\* The deepest nesting of Valgrind the process may run under (0: none).
MaxDepth == 2
\* The longest caller buffer, not counting its terminating NUL.
MaxLen == 2
\* The number of entries Valgrind's log stream may hold.
MaxLog == 2
\* The threads of the concurrent host, and the calls each performs.
NThreads == 2
KCalls == 2

(***************************************************************************)
(* Bytes.  "%s" is the format literal of both print shims.                 *)
(***************************************************************************)
NUL == 0
PERCENT == 37
CHAR_s == 115
\* The argument of exit() on the missing-macro path.
EXIT_ARG == -1

\* The bytes a caller's buffer is drawn from: NUL, '%', 'd', 's'.
MsgBytes == {NUL, PERCENT, 100, CHAR_s}

RECURSIVE SeqsUpTo(_, _)
SeqsUpTo(S, n) ==
    IF n = 0 THEN {<<>>}
    ELSE LET shorter == SeqsUpTo(S, n - 1)
         IN  shorter \cup {Append(q, b) : q \in shorter, b \in S}

\* The caller's buffers: any bytes, then the terminating NUL.
Buffers == {Append(q, NUL) : q \in SeqsUpTo(MsgBytes, MaxLen)}

(***************************************************************************)
(* The environment: the installed Valgrind headers and the Valgrind        *)
(* runtime.                                                                *)
(***************************************************************************)
Macros == {"RUNNING_ON_VALGRIND", "VALGRIND_PRINTF", "VALGRIND_PRINTF_BACKTRACE"}

\* The version of the valgrind.h compiled against.
VALGRIND_MAJOR == 3
VALGRIND_MINOR == 22

\* Request codes: the core's "running on valgrind" request, a request the
\* attached tool handles, and (0) a code nobody recognizes.
VG_USERREQ__RUNNING_ON_VALGRIND == 4097
TOOL_REQUEST == 4098
Requests == {0, VG_USERREQ__RUNNING_ON_VALGRIND, TOOL_REQUEST}
Defaults == {0, 42, 4660}
ArgTuples == {<<0, 0, 0, 0, 0>>, <<1, 2, 3, 4, 5>>}

VARIABLES
    defined,    \* the macros the installed headers provide
    depth,      \* the Valgrind nesting depth the process runs under, 0: none
    mem,        \* the caller's message buffer
    pc,         \* where the host process is
    fn,         \* the bridge function called last
    args,       \* its integer arguments
    outcome,    \* "none" | "running" | "returned" | "terminated"
    ret,        \* the value returned by the last call
    stderr,     \* the lines written to standard error
    vglog,      \* Valgrind's log stream
    status,     \* the exit status seen by the parent, -1 while alive
    retained,   \* what the bridge keeps after a call: copies, allocations, fds
    tpc,        \* per thread: "idle" | "call"
    tcalls,     \* per thread: the calls started so far
    tres,       \* per thread: the results returned so far
    nissued     \* the magic sequences executed, over all threads

vars == <<defined, depth, mem, pc, fn, args, outcome, ret, stderr, vglog,
          status, retained, tpc, tcalls, tres, nissued>>

hostVars == <<mem, pc, fn, args, outcome, ret, stderr, vglog, status, retained>>
threadVars == <<tpc, tcalls, tres, nissued>>

\* What the attached tool answers to TOOL_REQUEST: a function of the five
\* arguments that tells their order apart.
ToolResponse(a) == a[1] + 10 * a[2] + 100 * a[3] + 1000 * a[4] + 10000 * a[5]

\* The request codes somebody handles when the process runs under Valgrind.
Recognized == {VG_USERREQ__RUNNING_ON_VALGRIND, TOOL_REQUEST}

\* The client-request macro of valgrind.h: the magic sequence leaves the
\* default in place unless a tool is attached and handles the request.
VALGRIND_DO_CLIENT_REQUEST_EXPR(d, r, a1, a2, a3, a4, a5) ==
    IF depth = 0 \/ r \notin Recognized THEN d
    ELSE IF r = VG_USERREQ__RUNNING_ON_VALGRIND THEN depth
    ELSE ToolResponse(<<a1, a2, a3, a4, a5>>)

\* The macro RUNNING_ON_VALGRIND of valgrind.h.
RUNNING_ON_VALGRIND ==
    VALGRIND_DO_CLIENT_REQUEST_EXPR(0, VG_USERREQ__RUNNING_ON_VALGRIND,
                                    0, 0, 0, 0, 0)

\* The bytes of a C string: those before the first NUL.
RECURSIVE CStr(_)
CStr(buf) ==
    IF buf = <<>> \/ Head(buf) = NUL THEN <<>>
    ELSE <<Head(buf)>> \o CStr(Tail(buf))

\* What a conversion prints when the argument list has run out.
Garbage == {<<48>>, <<63>>}

\* printf-style formatting of the format's bytes: %% is a percent sign, %s
\* the C string its argument points to, %d its argument as a number (the
\* bridge only ever passes pointers, whose digits are garbage); any other
\* byte, and a '%' before any other byte, is copied.
RECURSIVE Format(_, _, _)
Format(fmt, fargs, g) ==
    IF fmt = <<>> THEN <<>>
    ELSE IF Head(fmt) # PERCENT \/ Len(fmt) = 1
         THEN <<Head(fmt)>> \o Format(Tail(fmt), fargs, g)
    ELSE LET c == fmt[2]
             rest == SubSeq(fmt, 3, Len(fmt))
             more == IF fargs = <<>> THEN <<>> ELSE Tail(fargs)
         IN  IF c = PERCENT THEN <<PERCENT>> \o Format(rest, fargs, g)
             ELSE IF c = CHAR_s
                  THEN (IF fargs = <<>> THEN g ELSE CStr(Head(fargs)))
                       \o Format(rest, more, g)
             ELSE IF c = 100 THEN g \o Format(rest, more, g)
             ELSE <<PERCENT>> \o Format(Tail(fmt), fargs, g)

\* The stack Valgrind prints for a request made in shim `f`: the header's
\* function, the shim, and the shim's caller.
Backtrace(macro, f) == <<macro, f, "host">>

\* What the build yields for a call of an identifier the headers do not
\* provide: the name is an undeclared external, and the call returns
\* whatever the symbol it links to returns.
UnresolvedRets == {-1, 0, 1}

(***************************************************************************)
(* src/iai-callgrind/valgrind/native.c                                     *)
(***************************************************************************)
\* A dispatcher that swaps the default and the request.
dispatch_swapped(d, r, a1, a2, a3, a4, a5) ==
    VALGRIND_DO_CLIENT_REQUEST_EXPR(r, d, a1, a2, a3, a4, a5)

\* A dispatcher that passes 0 for the default.
dispatch_zero_default(d, r, a1, a2, a3, a4, a5) ==
    VALGRIND_DO_CLIENT_REQUEST_EXPR(0, r, a1, a2, a3, a4, a5)

\* A dispatcher that keeps a static count of the requests made and folds it
\* into its result.
dispatch_counting(d, r, a1, a2, a3, a4, a5) ==
    VALGRIND_DO_CLIENT_REQUEST_EXPR(d, r, a1, a2, a3, a4, a5) + nissued

valgrind_do_client_request_expr(d, r, a1, a2, a3, a4, a5) ==
    VALGRIND_DO_CLIENT_REQUEST_EXPR(d, r, a1, a2, a3, a4, a5)

\* The "%s" literal.
FMT_S == <<PERCENT, CHAR_s, NUL>>

\* A print shim that uses the message as the format.
printf_message_as_format(message) ==
    [macro |-> "VALGRIND_PRINTF", fmt |-> message, fargs |-> <<>>]

\* What valgrind_printf hands to the header: the macro, format and arguments.
valgrind_printf_request(message) ==
    [macro |-> "VALGRIND_PRINTF", fmt |-> FMT_S, fargs |-> <<message>>]

\* A backtrace shim that calls the plain print macro.
backtrace_plain_printf(message) ==
    [macro |-> "VALGRIND_PRINTF", fmt |-> FMT_S, fargs |-> <<message>>]

\* A backtrace shim that uses the message as the format.
backtrace_message_as_format(message) ==
    [macro |-> "VALGRIND_PRINTF_BACKTRACE", fmt |-> message, fargs |-> <<>>]

valgrind_printf_backtrace_request(message) ==
    [macro |-> "VALGRIND_PRINTF_BACKTRACE", fmt |-> FMT_S,
     fargs |-> <<message>>]

\* One call of a print macro by shim `f`, with nothing kept afterwards.
PrintCall(f, q) ==
    /\ pc = "host"
    /\ fn' = f
    /\ args' = <<>>
    /\ outcome' = "returned"
    /\ IF q.macro \in defined
       THEN IF depth > 0
            THEN /\ Len(vglog) < MaxLog
                 /\ \E g \in Garbage :
                       LET out == Format(CStr(q.fmt), q.fargs, g)
                       IN  /\ vglog' = Append(vglog,
                                  [text |-> out,
                                   frames |->
                                       IF q.macro = "VALGRIND_PRINTF_BACKTRACE"
                                       THEN Backtrace(q.macro, f) ELSE <<>>])
                           /\ ret' = Len(out)
            ELSE /\ ret' = 0
                 /\ vglog' = vglog
       ELSE /\ ret' \in UnresolvedRets
            /\ vglog' = vglog
    /\ UNCHANGED <<defined, depth, mem, pc, stderr, status, retained>>
    /\ UNCHANGED threadVars

\* A valgrind_printf that keeps a copy of the message.
Call_valgrind_printf_retaining ==
    /\ pc = "host"
    /\ fn' = "valgrind_printf"
    /\ args' = <<>>
    /\ outcome' = "returned"
    /\ ret' = 0
    /\ retained' = retained \cup {CStr(mem)}
    /\ UNCHANGED <<defined, depth, mem, pc, stderr, vglog, status>>
    /\ UNCHANGED threadVars

Call_valgrind_printf ==
    PrintCall("valgrind_printf", valgrind_printf_request(mem))

Call_valgrind_printf_backtrace ==
    PrintCall("valgrind_printf_backtrace",
              valgrind_printf_backtrace_request(mem))

Call_valgrind_do_client_request_expr ==
    /\ pc = "host"
    /\ \E d \in Defaults, r \in Requests, a \in ArgTuples :
          /\ fn' = "valgrind_do_client_request_expr"
          /\ args' = <<d, r>> \o a
          /\ ret' = valgrind_do_client_request_expr(d, r, a[1], a[2], a[3],
                                                    a[4], a[5])
    /\ outcome' = "returned"
    /\ UNCHANGED <<defined, depth, mem, pc, stderr, vglog, status, retained>>
    /\ UNCHANGED threadVars

(***************************************************************************)
(* src/client-request-tests/valgrind/wrapper.c                             *)
(***************************************************************************)
\* The diagnostic of print_error, as the pieces fprintf puts together.
DiagnosticLine(var) ==
    <<"valgrind client requests: ERROR: ", var,
      " not defined! You may need to check your installed valgrind version having this client request available. The valgrind version of the valgrind.h header file is ",
      ToString(VALGRIND_MAJOR), ".", ToString(VALGRIND_MINOR),
      ". Exiting...", "\n">>

\* A print_error that ends the process itself.
print_error_exits(var) ==
    /\ pc = "print_error"
    /\ stderr' = Append(stderr, DiagnosticLine(var))
    /\ pc' = "terminated"
    /\ outcome' = "terminated"
    /\ status' = 1
    /\ UNCHANGED <<defined, depth, mem, fn, args, ret, vglog, retained>>
    /\ UNCHANGED threadVars

print_error(var) ==
    /\ pc = "print_error"
    /\ stderr' = Append(stderr, DiagnosticLine(var))
    /\ pc' = "exit"
    /\ UNCHANGED <<defined, depth, mem, fn, args, outcome, ret, vglog, status,
                   retained>>
    /\ UNCHANGED threadVars

\* The status the parent sees: the low eight bits of exit's argument.
ExitStatus(code) == code % 256

\* exit(-1).
Exit ==
    /\ pc = "exit"
    /\ pc' = "terminated"
    /\ outcome' = "terminated"
    /\ status' = ExitStatus(EXIT_ARG)
    /\ UNCHANGED <<defined, depth, mem, fn, args, ret, stderr, vglog, retained>>
    /\ UNCHANGED threadVars

\* A shim that collapses the macro's value to a Boolean.
running_on_valgrind_bool == IF RUNNING_ON_VALGRIND # 0 THEN 1 ELSE 0

\* The value of `return RUNNING_ON_VALGRIND;`.
running_on_valgrind_value == RUNNING_ON_VALGRIND

\* A shim that answers 0 when the macro is missing.
Call_running_on_valgrind_silent ==
    /\ pc = "host"
    /\ fn' = "running_on_valgrind"
    /\ args' = <<>>
    /\ outcome' = "returned"
    /\ ret' = IF "RUNNING_ON_VALGRIND" \in defined
              THEN running_on_valgrind_value ELSE 0
    /\ UNCHANGED <<defined, depth, mem, pc, stderr, vglog, status, retained>>
    /\ UNCHANGED threadVars

Call_running_on_valgrind ==
    /\ pc = "host"
    /\ fn' = "running_on_valgrind"
    /\ args' = <<>>
    /\ IF "RUNNING_ON_VALGRIND" \in defined
       THEN /\ ret' = running_on_valgrind_value
            /\ outcome' = "returned"
            /\ pc' = pc
       ELSE /\ ret' = ret
            /\ outcome' = "running"
            /\ pc' = "print_error"
    /\ UNCHANGED <<defined, depth, mem, stderr, vglog, status, retained>>
    /\ UNCHANGED threadVars

Call_print_error == print_error("RUNNING_ON_VALGRIND")

(***************************************************************************)
(* The host process calling the bridge, one call after the other.          *)
(***************************************************************************)
Threads == 1..NThreads

ThreadInit ==
    /\ tpc = [t \in Threads |-> "idle"]
    /\ tcalls = [t \in Threads |-> <<>>]
    /\ tres = [t \in Threads |-> <<>>]
    /\ nissued = 0

Init ==
    /\ defined \in SUBSET Macros
    /\ depth \in 0..MaxDepth
    /\ mem \in Buffers
    \* Without a print macro native.c may not build at all.
    /\ pc \in IF {"VALGRIND_PRINTF", "VALGRIND_PRINTF_BACKTRACE"} \subseteq defined
              THEN {"host"} ELSE {"host", "nobuild"}
    /\ fn = "none"
    /\ args = <<>>
    /\ outcome = "none"
    /\ ret = 0
    /\ stderr = <<>>
    /\ vglog = <<>>
    /\ status = -1
    /\ retained = {}
    /\ ThreadInit

Next ==
    \/ Call_valgrind_do_client_request_expr
    \/ Call_valgrind_printf
    \/ Call_valgrind_printf_backtrace
    \/ Call_running_on_valgrind
    \/ Call_print_error
    \/ Exit

Spec == Init /\ [][Next]_vars

(***************************************************************************)
(* The concurrent host: NThreads threads, each performing KCalls calls of  *)
(* the dispatcher.  A call is two steps: the thread enters the function    *)
(* with its arguments, then executes the magic sequence and returns.       *)
(***************************************************************************)
ThreadCalls ==
    {<<42, 0, 0, 0, 0, 0, 0>>, <<7, TOOL_REQUEST, 1, 2, 3, 4, 5>>}

DispatchOf(c) ==
    valgrind_do_client_request_expr(c[1], c[2], c[3], c[4], c[5], c[6], c[7])

ThreadEnter(t) ==
    /\ tpc[t] = "idle"
    /\ Len(tcalls[t]) < KCalls
    /\ \E c \in ThreadCalls : tcalls' = [tcalls EXCEPT ![t] = Append(@, c)]
    /\ tpc' = [tpc EXCEPT ![t] = "call"]
    /\ UNCHANGED <<tres, nissued>>
    /\ UNCHANGED <<defined, depth>>
    /\ UNCHANGED hostVars

ThreadMagic(t) ==
    /\ tpc[t] = "call"
    /\ tres' = [tres EXCEPT
                  ![t] = Append(@, DispatchOf(tcalls[t][Len(tcalls[t])]))]
    /\ nissued' = nissued + 1
    /\ tpc' = [tpc EXCEPT ![t] = "idle"]
    /\ UNCHANGED tcalls
    /\ UNCHANGED <<defined, depth>>
    /\ UNCHANGED hostVars

InitThreads ==
    /\ defined = Macros
    /\ depth \in 0..MaxDepth
    /\ mem = <<NUL>>
    /\ pc = "host"
    /\ fn = "none"
    /\ args = <<>>
    /\ outcome = "none"
    /\ ret = 0
    /\ stderr = <<>>
    /\ vglog = <<>>
    /\ status = -1
    /\ retained = {}
    /\ ThreadInit

NextThreads ==
    \/ \E t \in Threads : ThreadEnter(t)
    \/ \E t \in Threads : ThreadMagic(t)

SpecThreads == InitThreads /\ [][NextThreads]_vars

(***************************************************************************)
(* The claims.                                                             *)
(***************************************************************************)
Dispatcher == "valgrind_do_client_request_expr"
PrintShims == {"valgrind_printf", "valgrind_printf_backtrace"}
Shims == PrintShims \cup {"running_on_valgrind"}

\* The header identifier a shim rests on.
MacroOf(s) ==
    CASE s = "running_on_valgrind" -> "RUNNING_ON_VALGRIND"
      [] s = "valgrind_printf" -> "VALGRIND_PRINTF"
      [] s = "valgrind_printf_backtrace" -> "VALGRIND_PRINTF_BACKTRACE"

Last(q) == q[Len(q)]

\* A line of standard error names `macro` and gives the header's version.
Names(line, macro) == \E i \in 1..Len(line) : line[i] = macro
GivesVersion(line) ==
    \E i \in 1..(Len(line) - 2) :
        /\ line[i] = ToString(VALGRIND_MAJOR)
        /\ line[i + 1] = "."
        /\ line[i + 2] = ToString(VALGRIND_MINOR)
\* A line holds one newline, at its end.
OneLine(line) ==
    /\ line # <<>>
    /\ \A i \in 1..Len(line) : (line[i] = "\n") <=> (i = Len(line))

\* C1. Identity under no instrumentation: without a Valgrind tool the
\* dispatcher returns exactly its default argument, whatever the request
\* code and the five arguments are.
C1_IdentityUninstrumented ==
    (fn = Dispatcher /\ outcome = "returned" /\ depth = 0) => ret = args[1]

C1_Witness ==
    /\ fn = Dispatcher /\ outcome = "returned" /\ depth = 0
    /\ args = <<4660, TOOL_REQUEST, 1, 2, 3, 4, 5>>
    /\ ret = 4660

C3_DeclinedReturnsDefault ==
    (fn = Dispatcher /\ outcome = "returned" /\ depth > 0
        /\ args[2] \notin Recognized)
    => ret = args[1] /\ pc = "host" /\ status = -1 /\ stderr = <<>>

C3_Witness ==
    /\ fn = Dispatcher /\ outcome = "returned" /\ depth > 0
    /\ args = <<42, 0, 1, 2, 3, 4, 5>>
    /\ ret = 42

\* C4. Detection: with RUNNING_ON_VALGRIND defined, running_on_valgrind
\* returns 0 when the process is not instrumented and, under Valgrind, the
\* positive depth the macro computed, not collapsed to a Boolean.
C4_Detection ==
    (fn = "running_on_valgrind" /\ outcome = "returned")
    => /\ "RUNNING_ON_VALGRIND" \in defined
       /\ depth = 0 => ret = 0
       /\ depth > 0 => ret > 0 /\ ret = depth

C4_Witness ==
    fn = "running_on_valgrind" /\ outcome = "returned" /\ depth = 2 /\ ret = 2

\* C5. Stateless concurrency: under every interleaving, the k-th result of
\* a thread is the result of its k-th call taken alone, a thread's results
\* come in its program order, and once all calls are done the multiset of
\* results is that of a serialized execution of the same calls.
RECURSIVE SeqToBag(_)
SeqToBag(q) ==
    IF q = <<>> THEN EmptyBag ELSE SetToBag({Head(q)}) (+) SeqToBag(Tail(q))

RECURSIVE Flatten(_, _)
Flatten(f, n) == IF n = 0 THEN <<>> ELSE Flatten(f, n - 1) \o f[n]

\* A serialized execution: thread 1's calls one after the other, then
\* thread 2's, and so on.
RECURSIVE SerialRun(_)
SerialRun(cs) ==
    IF cs = <<>> THEN <<>> ELSE <<DispatchOf(Head(cs))>> \o SerialRun(Tail(cs))

AllDone == \A t \in Threads : Len(tres[t]) = KCalls

C5_StatelessConcurrency ==
    /\ \A t \in Threads :
          /\ Len(tres[t]) = Len(tcalls[t]) - (IF tpc[t] = "call" THEN 1 ELSE 0)
          /\ \A k \in 1..Len(tres[t]) : tres[t][k] = DispatchOf(tcalls[t][k])
    /\ AllDone
       => SeqToBag(Flatten(tres, NThreads))
            = SeqToBag(SerialRun(Flatten(tcalls, NThreads)))

C5_Witness ==
    /\ AllDone
    /\ depth > 0
    /\ tcalls[1] # tcalls[2]
    /\ tres[1] # tres[2]

\* C6. Print round-trip: under Valgrind, a call of valgrind_printf adds to
\* Valgrind's log exactly the bytes of the NUL-terminated message, with no
\* backtrace, and returns their number, which is not negative.
C6_PrintRoundTrip ==
    [][(pc = "host" /\ fn' = "valgrind_printf" /\ depth > 0
          /\ "VALGRIND_PRINTF" \in defined)
       => /\ vglog' = Append(vglog, [text |-> CStr(mem), frames |-> <<>>])
          /\ ret' = Len(CStr(mem))
          /\ ret' >= 0]_vars

C6_Witness ==
    /\ fn = "valgrind_printf" /\ outcome = "returned" /\ depth > 0
    /\ "VALGRIND_PRINTF" \in defined
    /\ CStr(mem) = <<CHAR_s, 100>>
    /\ Last(vglog).text = <<CHAR_s, 100>>
    /\ ret = 2

\* C7. Backtrace variant: under Valgrind, a call of
\* valgrind_printf_backtrace adds to the log the literal message followed
\* by stack-frame lines, among them the shim's and its caller's, and returns
\* the number of message bytes written.
C7_Backtrace ==
    [][(pc = "host" /\ fn' = "valgrind_printf_backtrace" /\ depth > 0
          /\ "VALGRIND_PRINTF_BACKTRACE" \in defined)
       => /\ Len(vglog') = Len(vglog) + 1
          /\ SubSeq(vglog', 1, Len(vglog)) = vglog
          /\ Last(vglog').text = CStr(mem)
          /\ Len(Last(vglog').frames) >= 1
          /\ \E i, j \in 1..Len(Last(vglog').frames) :
                /\ i < j
                /\ Last(vglog').frames[i] = "valgrind_printf_backtrace"
                /\ Last(vglog').frames[j] = "host"
          /\ ret' = Len(CStr(mem))]_vars

C7_Witness ==
    /\ fn = "valgrind_printf_backtrace" /\ outcome = "returned" /\ depth > 0
    /\ "VALGRIND_PRINTF_BACKTRACE" \in defined
    /\ CStr(mem) # <<>>
    /\ Last(vglog).text = CStr(mem)
    /\ Last(vglog).frames # <<>>

\* C8. The print shims treat the message as a format-free literal: both
\* pass the fixed format "%s" with the message as its one argument, so the
\* message's bytes are logged verbatim also when they hold conversions.
C8_FormatFreeLiteral ==
    /\ \A q \in {valgrind_printf_request(mem),
                 valgrind_printf_backtrace_request(mem)} :
          q.fmt = FMT_S /\ q.fargs = <<mem>>
    /\ (fn \in PrintShims /\ outcome = "returned" /\ depth > 0
          /\ MacroOf(fn) \in defined)
       => vglog # <<>> /\ Last(vglog).text = CStr(mem) /\ ret = Len(CStr(mem))

C8_Witness ==
    /\ fn = "valgrind_printf_backtrace" /\ outcome = "returned" /\ depth > 0
    /\ "VALGRIND_PRINTF_BACKTRACE" \in defined
    /\ CStr(mem) = <<PERCENT, CHAR_s>>
    /\ Last(vglog).text = <<PERCENT, CHAR_s>>

\* C9. The missing-macro path of running_on_valgrind: print_error writes
\* exactly one newline-terminated line to standard error and returns with
\* the process alive; exit(-1) then terminates it with status 255.  So the
\* diagnostic precedes termination, the shim never returns to the host after
\* it, and a call that has ended has either returned a word or terminated
\* the process, never both.
C9_MissingMacroPath ==
    /\ pc = "print_error"
       => stderr = <<>> /\ status = -1 /\ outcome = "running"
    /\ pc = "exit"
       => /\ Len(stderr) = 1 /\ OneLine(stderr[1])
          /\ status = -1 /\ outcome = "running"
    /\ pc = "terminated"
       => /\ Len(stderr) = 1 /\ OneLine(stderr[1])
          /\ status = 255 /\ status # 0
          /\ outcome = "terminated"
          /\ fn = "running_on_valgrind"
    /\ status # -1 => stderr # <<>>
    /\ stderr # <<>> => outcome # "returned" /\ pc # "host"
    /\ fn = "running_on_valgrind"
       => /\ outcome \in {"running", "returned", "terminated"}
          /\ outcome = "returned" <=> pc = "host"
          /\ outcome = "returned" => status = -1
          /\ outcome = "terminated" <=> status # -1

C9_Witness ==
    /\ pc = "terminated"
    /\ status = 255
    /\ Len(stderr) = 1

\* C10. Frame condition: no step of the bridge changes the caller's message
\* buffer or leaves anything retained (a copy, an allocation, a descriptor),
\* and a call repeated with the same arguments in the same environment
\* returns the same result, whatever was called before.
Successful ==
    /\ outcome = "returned"
    /\ fn \in Shims => MacroOf(fn) \in defined

C10_Frame ==
    [][/\ mem' = mem
       /\ retained' = {}
       /\ defined' = defined /\ depth' = depth
       /\ (Successful /\ Successful' /\ fn' = fn /\ args' = args)
          => ret' = ret]_vars

C10_Witness ==
    /\ fn = "valgrind_printf" /\ Successful
    /\ depth > 0
    /\ Len(vglog) = 2
    /\ vglog[1] = vglog[2]
    /\ CStr(mem) # <<>>
    /\ retained = {}

=============================================================================
